---- MODULE Spec2Model ----
(***************************************************************************)
(* Model of the real-time voice streaming service                          *)
(* (src/server/services/voiceStreaming.ts, class VoiceStreamingService).   *)
(*                                                                         *)
(* One step of the model is one unit of work of the Node.js event loop:    *)
(* a call of initializeVoiceSession (its awaits only wait for promises     *)
(* that are already resolved, so no socket event runs in between), or one  *)
(* socket event with the handler the service registered for it.            *)
(*                                                                         *)
(* The sockets are objects of the `ws` package.  What the service relies   *)
(* on is modelled as the package behaves:                                  *)
(*   - readyState is CONNECTING, OPEN, CLOSING or CLOSED;                  *)
(*   - close() on a CONNECTING socket aborts the handshake: the socket     *)
(*     becomes CLOSING and emits 'error' ("WebSocket was closed before     *)
(*     the connection was established") on the next tick, then closes;     *)
(*   - close() on an OPEN socket starts the closing handshake (CLOSING);   *)
(*     'message' events may still be emitted until the socket is CLOSED;   *)
(*   - close() on a CLOSING or CLOSED socket does nothing;                 *)
(*   - after 'error' the socket is closed by the package;                  *)
(*   - send() on a server-side socket that is no longer OPEN does not      *)
(*     throw (the data is dropped).                                        *)
(***************************************************************************)
EXTENDS Integers, Sequences, FiniteSets, TLC

\* ------------------------------------------------------------------ bounds

\* Messages a session may send in one window of the rate limiter.
MessageLimit == 1

\* Frames received from the clients and from the provider, over all sessions.
MaxFrames == 2

\* ------------------------------------------------------------------ inputs

\* The client sockets handed to initializeVoiceSession (one call each), named
\* in the order of the calls.
Conn == {"w1", "w2"}
Earlier(c) == IF c = "w2" THEN {"w1"} ELSE {}

\* The values Date.now() takes: two calls read the same instant or not.
Instants == {1, 2}

\* sessionId arguments, as sequences of characters.
SessionIds == {<<"s", "1">>}

\* conversationId arguments.
ConversationIds == {"c1"}

\* Raw frames a client can send.  parses = FALSE: JSON.parse (or reading
\* message.type of a parsed null) throws.
ClientFrames ==
    { [parses |-> FALSE, type |-> "", text |-> ""] }
    \cup { [parses |-> TRUE, type |-> t, text |-> ""] : t \in {"audio_input", "stop", "ping"} }
    \cup { [parses |-> TRUE, type |-> "text_input", text |-> x] : x \in {"a"} }

\* Raw frames the provider can send.  audio = "" stands for a frame without a
\* payload (audio absent, null or empty: all falsy).
TtsFrames ==
    { [parses |-> FALSE, audio |-> "", isFinal |-> FALSE] }
    \cup { [parses |-> TRUE, audio |-> "", isFinal |-> TRUE],
           [parses |-> TRUE, audio |-> "p", isFinal |-> TRUE],
           [parses |-> TRUE, audio |-> "q", isFinal |-> FALSE] }

\* Personality names a caller can pass: the three the table names, names it
\* does not hold, and names of members every object inherits.
Personalities ==
    { "AUtistic AI", "Level 1 ASD", "Savantist",
      "", "autistic ai", "Unknown",
      "constructor", "toString", "valueOf", "hasOwnProperty", "__proto__" }

\* The personality of the sessions whose socket events are explored: the
\* config built from it is read by no handler.
SessionPersonalities == { "AUtistic AI" }

\* The HTTP requests in flight together, and the sessions (req.session, set
\* by the session middleware) they belong to.
Req == {"r1", "r2"}
Sessions == {"sA", "sB"}

\* req.body.content: absent or empty (falsy), or a text.
Contents == {"", "hi"}

\* Conversation ids: NoConversation stands for a request without one.  The
\* storage hands out FirstConversation, then the next integers.
NoConversation == 0
FirstConversation == 1

\* ------------------------------------------------------------------ state

VARIABLES
    clock,          \* the value Date.now() returns
    activeSessions, \* Map<string, VoiceStreamingSession>: key -> session object (named by its client socket)
    phase,          \* per call of initializeVoiceSession: "idle", "inited" (handlers registered), "failed" (catch block ran)
    voiceSession,   \* the VoiceStreamingSession object: sessionId, conversationId, isActive, hasWs (elevenLabsWs is set)
    elevenLabsWs,   \* readyState of the session's synthesis socket, "NONE" while there is none
    abortPending,   \* the socket was closed while CONNECTING and has its 'error' event still to emit
    clientWs,       \* readyState of the client socket: "OPEN" or "CLOSED"
    clientSent,     \* frames passed to clientWs.send, in order
    ttsSent,        \* frames passed to elevenLabsWs.send, in order
    clientIn,       \* history: frames received from the client; for a directive, whether the synthesis socket was OPEN then
    ttsIn,          \* history: frames received from the provider
    fatal,          \* history: the fatal upstream condition the session met: "none", "construct", "connect", "transport"
    closeCalls,     \* history: number of elevenLabsWs.close() calls on the session's socket
    deletes,        \* history: number of times the session object was deleted from activeSessions
    nextToken,      \* generateSecureToken: the next value it returns
    pendingPersist, \* storage.createAudioCache calls in flight
    audioCache,     \* entries storage has written
    frames,         \* history: number of frames received from the clients and the provider
    persistCalls,   \* history: the cacheAudioOutput calls of the session: token, audio, frames sent to the client before
    geminiConfig,   \* initializeGeminiLive: the config built for the session (personality, system_instruction)
    request,        \* routes.ts: each HTTP request: its input, the await it stands at, its locals, its response
    messageCount,   \* the rate limiter: messages counted for each session in the current window
    conversations,  \* storage: conversation id -> sessionId of its owner
    messages,       \* storage: the messages created, in order
    webhookLogs,    \* storage: the webhook logs created, in order
    calls           \* history: for each request, the calls it awaited, in order, each resolved (ok) or rejected

vars == <<clock, activeSessions, phase, voiceSession, elevenLabsWs, abortPending,
          clientWs, clientSent, ttsSent, clientIn, ttsIn, fatal, closeCalls,
          deletes, nextToken, pendingPersist, audioCache, frames, persistCalls,
          geminiConfig, request, messageCount, conversations, messages, webhookLogs,
          calls>>

\* The state of the HTTP routes (routes.ts) and of its collaborators.
routeVars == <<request, messageCount, conversations, messages, webhookLogs, calls>>

\* The state of the voice streaming service (voiceStreaming.ts).
voiceVars == <<clock, activeSessions, phase, voiceSession, elevenLabsWs, abortPending,
               clientWs, clientSent, ttsSent, clientIn, ttsIn, fatal, closeCalls,
               deletes, nextToken, pendingPersist, audioCache, frames, persistCalls,
               geminiConfig>>

\* ------------------------------------------------------------------ helpers

RECURSIVE Digits(_)
\* Decimal digits of a natural number, as `${n}` prints them.
Digits(n) ==
    LET d == <<"0", "1", "2", "3", "4", "5", "6", "7", "8", "9">>
    IN  IF n < 10 THEN <<d[n + 1]>> ELSE Digits(n \div 10) \o <<d[(n % 10) + 1]>>

\* `${sessionId}-${Date.now()}`
StreamSessionId(sessionId, now) == sessionId \o <<"-">> \o Digits(now)

\* No config has been built.
NoConfig == [personality |-> "", system_instruction |-> [type |-> "undefined", value |-> ""]]

NoSession == [sessionId |-> <<>>, conversationId |-> "", isActive |-> FALSE, hasWs |-> FALSE]

Frame(type, data) == [type |-> type, data |-> data]

VoiceReadyFrame == Frame("voice_ready", "Voice streaming ready")
InitErrorFrame == Frame("error", "Failed to initialize voice streaming")
TtsErrorFrame == Frame("error", "TTS connection error")
AudioProcessingFrame == Frame("audio_processing", "Processing your speech...")
AudioOutputFrame(audio) == Frame("audio_output", audio)

ConfigFrame == [text |-> " ", flag |-> "voice_settings"]
TextFrame(text) == [text |-> text, flag |-> "try_trigger_generation"]
FlushFrame == [text |-> "", flag |-> "flush"]

\* WebSocket.close() of the ws package, by the socket's readyState.
WsClose(state) ==
    CASE state = "CONNECTING" -> "CLOSING"
      [] state = "OPEN" -> "CLOSING"
      [] OTHER -> state

\* The part of the state cleanupSession reads and writes.
Registry ==
    [ sessions |-> activeSessions, objects |-> voiceSession, sockets |-> elevenLabsWs,
      aborts |-> abortPending, closes |-> closeCalls, dels |-> deletes ]

\* cleanupSession with the activeSessions.delete left out.
CleanupSession_NoDelete(r, key) ==
    IF key \in DOMAIN r.sessions
    THEN LET s == r.sessions[key]
             hasWs == r.objects[s].hasWs
         IN  [ r EXCEPT !.objects = [@ EXCEPT ![s].isActive = FALSE],
                        !.sockets = IF hasWs THEN [@ EXCEPT ![s] = WsClose(@)] ELSE @,
                        !.aborts = IF hasWs /\ r.sockets[s] = "CONNECTING"
                                   THEN [@ EXCEPT ![s] = TRUE] ELSE @,
                        !.closes = IF hasWs THEN [@ EXCEPT ![s] = @ + 1] ELSE @ ]
    ELSE r

\* cleanupSession(sessionId), as a function of the registry state.
CleanupSession(r, key) ==
    IF key \in DOMAIN r.sessions
    THEN LET s == r.sessions[key]
             hasWs == r.objects[s].hasWs
         IN  [ sessions |-> [k \in DOMAIN r.sessions \ {key} |-> r.sessions[k]],
               objects |-> [r.objects EXCEPT ![s].isActive = FALSE],
               sockets |-> IF hasWs THEN [r.sockets EXCEPT ![s] = WsClose(@)] ELSE r.sockets,
               aborts |-> IF hasWs /\ r.sockets[s] = "CONNECTING"
                          THEN [r.aborts EXCEPT ![s] = TRUE] ELSE r.aborts,
               closes |-> IF hasWs THEN [r.closes EXCEPT ![s] = @ + 1] ELSE r.closes,
               dels |-> [r.dels EXCEPT ![s] = @ + 1] ]
    ELSE r

\* The registry state written back to the variables.
SetRegistry(r) ==
    /\ activeSessions' = r.sessions
    /\ voiceSession' = r.objects
    /\ elevenLabsWs' = r.sockets
    /\ abortPending' = r.aborts
    /\ closeCalls' = r.closes
    /\ deletes' = r.dels

\* Map.set
MapSet(m, key, value) == [k \in DOMAIN m \cup {key} |-> IF k = key THEN value ELSE m[k]]

\* ------------------------------------------------------------------ initial state

\* A request that has not arrived.
NoRequest ==
    [ pc |-> "idle", method |-> "", session |-> "", content |-> "",
      conversationId |-> NoConversation, conversation |-> NoConversation,
      status |-> 0, body |-> <<>> ]

\* The routes before any request, the sessions having sent `counts` messages
\* in the current window; the storage is empty.
RouteInit(counts) ==
    /\ request = [r \in Req |-> NoRequest]
    /\ messageCount = counts
    /\ conversations = <<>>
    /\ messages = <<>>
    /\ webhookLogs = <<>>
    /\ calls = [r \in Req |-> <<>>]

\* The voice streaming service after construction.
VoiceInit ==
    /\ clock = 1
    /\ activeSessions = <<>>
    /\ phase = [c \in Conn |-> "idle"]
    /\ voiceSession = [c \in Conn |-> NoSession]
    /\ elevenLabsWs = [c \in Conn |-> "NONE"]
    /\ abortPending = [c \in Conn |-> FALSE]
    /\ clientWs = [c \in Conn |-> "OPEN"]
    /\ clientSent = [c \in Conn |-> <<>>]
    /\ ttsSent = [c \in Conn |-> <<>>]
    /\ clientIn = [c \in Conn |-> <<>>]
    /\ ttsIn = [c \in Conn |-> <<>>]
    /\ fatal = [c \in Conn |-> "none"]
    /\ closeCalls = [c \in Conn |-> 0]
    /\ deletes = [c \in Conn |-> 0]
    /\ nextToken = 1
    /\ pendingPersist = {}
    /\ audioCache = {}
    /\ frames = 0
    /\ persistCalls = [c \in Conn |-> <<>>]
    /\ geminiConfig = [c \in Conn |-> NoConfig]

Init ==
    /\ VoiceInit
    /\ RouteInit([s \in Sessions |-> 0])

\* ------------------------------------------------------------------ actions

\* Time passes: Date.now() returns a larger value from now on.  The clock is
\* read by initializeVoiceSession alone, and what matters is whether two calls
\* read the same value: time is followed from the first call to the last.
Tick ==
    /\ clock + 1 \in Instants
    /\ \E c \in Conn : phase[c] # "idle"
    /\ \E c \in Conn : phase[c] = "idle"
    /\ clock' = clock + 1
    /\ UNCHANGED <<routeVars, persistCalls, geminiConfig, frames, activeSessions, phase, voiceSession, elevenLabsWs, abortPending,
                   clientWs, clientSent, ttsSent, clientIn, ttsIn, fatal, closeCalls,
                   deletes, nextToken, pendingPersist, audioCache>>

\* A JavaScript value: its typeof and, for a string, its characters.
Str(chars) == [type |-> "string", value |-> chars]
Undefined == [type |-> "undefined", value |-> ""]

\* The object literal `prompts` of getPersonalitySystemPrompt: its own properties.
Prompts ==
    [ k \in {"AUtistic AI", "Level 1 ASD", "Savantist"} |->
        CASE k = "AUtistic AI" -> "You are AUtistic AI, specialized in meme coins and creative content. Be casual, fun, and knowledgeable about crypto culture."
          [] k = "Level 1 ASD" -> "You are Level 1 ASD, focused on learning, facts, and solving complex problems. Be analytical and educational."
          [] k = "Savantist" -> "You are Savantist, the expert in advanced trading insights. Provide deep analysis with maximum detail and precision." ]

\* Members an object literal inherits from Object.prototype (those among the
\* names explored): functions, and the accessor __proto__ yielding the
\* prototype object.
ObjectPrototype ==
    [ k \in {"constructor", "toString", "valueOf", "hasOwnProperty", "__proto__"} |->
        IF k = "__proto__" THEN [type |-> "object", value |-> "Object.prototype"]
                           ELSE [type |-> "function", value |-> k] ]

\* prompts[key]: an own property, else an inherited member, else undefined.
PromptsGet(key) ==
    IF key \in DOMAIN Prompts THEN Str(Prompts[key])
    ELSE IF key \in DOMAIN ObjectPrototype THEN ObjectPrototype[key]
    ELSE Undefined

\* The operand of || is kept: not undefined and not the empty string.
Truthy(v) == v.type # "undefined" /\ ~(v.type = "string" /\ v.value = "")

\* getPersonalitySystemPrompt(personality):
\* prompts[personality] || prompts['AUtistic AI'].
GetPersonalitySystemPrompt(personality) ==
    IF Truthy(PromptsGet(personality))
    THEN PromptsGet(personality)
    ELSE PromptsGet("AUtistic AI")

\* initializeVoiceSession(clientWs, sessionId, conversationId, personality).
\* ctorThrows: new WebSocket(url) throws (initializeElevenLabs rejects).
InitializeVoiceSession(c, sessionId, conversationId, personality, ctorThrows) ==
    /\ phase[c] = "idle"
    /\ \A e \in Earlier(c) : phase[e] # "idle"
    /\ clientWs[c] = "OPEN"
    /\ LET streamSessionId == StreamSessionId(sessionId, clock)
           object == [sessionId |-> streamSessionId, conversationId |-> conversationId,
                      isActive |-> TRUE, hasWs |-> ~ctorThrows]
           set == [Registry EXCEPT !.sessions = MapSet(@, streamSessionId, c),
                                   !.objects = [@ EXCEPT ![c] = object]]
       IN  IF ctorThrows
           THEN /\ SetRegistry(CleanupSession(set, streamSessionId))
                /\ clientSent' = [clientSent EXCEPT ![c] = Append(@, InitErrorFrame)]
                /\ fatal' = [fatal EXCEPT ![c] = "construct"]
                /\ phase' = [phase EXCEPT ![c] = "failed"]
                /\ geminiConfig' = geminiConfig
           ELSE /\ SetRegistry([set EXCEPT !.sockets = [@ EXCEPT ![c] = "CONNECTING"]])
                /\ clientSent' = [clientSent EXCEPT ![c] = Append(@, VoiceReadyFrame)]
                /\ fatal' = fatal
                /\ phase' = [phase EXCEPT ![c] = "inited"]
                /\ geminiConfig' = [geminiConfig EXCEPT ![c] =
                        [ personality |-> personality,
                          system_instruction |-> GetPersonalitySystemPrompt(personality) ]]
    /\ UNCHANGED <<routeVars, persistCalls, frames, clock, clientWs, ttsSent, clientIn, ttsIn, nextToken, pendingPersist, audioCache>>

\* elevenLabsWs.on('open'): the connection is established.
TtsOpen(c) ==
    /\ elevenLabsWs[c] = "CONNECTING"
    /\ elevenLabsWs' = [elevenLabsWs EXCEPT ![c] = "OPEN"]
    /\ ttsSent' = [ttsSent EXCEPT ![c] = Append(@, ConfigFrame)]
    /\ UNCHANGED <<routeVars, persistCalls, geminiConfig, frames, clock, activeSessions, phase, voiceSession, abortPending, clientWs,
                   clientSent, clientIn, ttsIn, fatal, closeCalls, deletes, nextToken,
                   pendingPersist, audioCache>>

\* elevenLabsWs.on('error'), body of the handler.
OnTtsError(c) ==
    clientSent' = [clientSent EXCEPT ![c] = Append(@, TtsErrorFrame)]

\* The connection fails to open: 'error' is emitted, the socket closes.
TtsConnectError(c) ==
    /\ elevenLabsWs[c] = "CONNECTING"
    /\ elevenLabsWs' = [elevenLabsWs EXCEPT ![c] = "CLOSED"]
    /\ fatal' = [fatal EXCEPT ![c] = "connect"]
    /\ OnTtsError(c)
    /\ UNCHANGED <<routeVars, persistCalls, geminiConfig, frames, clock, activeSessions, phase, voiceSession, abortPending, clientWs,
                   ttsSent, clientIn, ttsIn, closeCalls, deletes, nextToken,
                   pendingPersist, audioCache>>

\* A transport error on an established connection: 'error' is emitted, the
\* socket closes.
TtsTransportError(c) ==
    /\ elevenLabsWs[c] \in {"OPEN", "CLOSING"}
    /\ ~abortPending[c]
    /\ elevenLabsWs' = [elevenLabsWs EXCEPT ![c] = "CLOSED"]
    /\ fatal' = [fatal EXCEPT ![c] = "transport"]
    /\ OnTtsError(c)
    /\ UNCHANGED <<routeVars, persistCalls, geminiConfig, frames, clock, activeSessions, phase, voiceSession, abortPending, clientWs,
                   ttsSent, clientIn, ttsIn, closeCalls, deletes, nextToken,
                   pendingPersist, audioCache>>

\* The 'error' event of a socket that close() aborted while CONNECTING.
TtsAbortError(c) ==
    /\ abortPending[c]
    /\ abortPending' = [abortPending EXCEPT ![c] = FALSE]
    /\ elevenLabsWs' = [elevenLabsWs EXCEPT ![c] = "CLOSED"]
    /\ OnTtsError(c)
    /\ UNCHANGED <<routeVars, persistCalls, geminiConfig, frames, clock, activeSessions, phase, voiceSession, clientWs, ttsSent,
                   clientIn, ttsIn, fatal, closeCalls, deletes, nextToken,
                   pendingPersist, audioCache>>

\* The synthesis socket closes without an error: the closing handshake ends,
\* or the provider closes the connection.  The service has no 'close' handler.
TtsClosed(c) ==
    /\ elevenLabsWs[c] \in {"OPEN", "CLOSING"}
    /\ ~abortPending[c]
    /\ elevenLabsWs' = [elevenLabsWs EXCEPT ![c] = "CLOSED"]
    /\ UNCHANGED <<routeVars, persistCalls, geminiConfig, frames, clock, activeSessions, phase, voiceSession, abortPending, clientWs,
                   clientSent, ttsSent, clientIn, ttsIn, fatal, closeCalls, deletes,
                   nextToken, pendingPersist, audioCache>>

\* The retrieval URL built from the first token issued instead of its own.
CacheEntry_UrlFromFirstToken(sessionId, conversationId, secureToken) ==
    [ sessionId |-> sessionId, conversationId |-> conversationId,
      audioUrl |-> <<"/api/audio/", 1>>, secureToken |-> secureToken ]

\* cacheAudioOutput(sessionId, conversationId, audioBase64), up to its await:
\* the entry handed to storage.createAudioCache.
CacheEntry(sessionId, conversationId, secureToken) ==
    [ sessionId |-> sessionId, conversationId |-> conversationId,
      audioUrl |-> <<"/api/audio/", secureToken>>, secureToken |-> secureToken ]

\* The handler with the forwarding made to wait for the cache: a frame that
\* arrives while a persist call is pending is not forwarded.
ForwardAudio_AfterCache(data, sent) ==
    IF data.parses /\ data.audio # "" /\ pendingPersist = {}
    THEN Append(sent, AudioOutputFrame(data.audio))
    ELSE sent

\* elevenLabsWs.on('message'), lines 103-111: the frames sent to the client.
ForwardAudio(data, sent) ==
    IF data.parses /\ data.audio # ""
    THEN Append(sent, AudioOutputFrame(data.audio))
    ELSE sent

\* cacheAudioOutput called ahead of clientWs.send.
SentWhenPersistStarts_CacheFirst(data, sent) == Len(sent)

\* elevenLabsWs.on('message'), lines 105-120: the number of frames passed to
\* clientWs.send when cacheAudioOutput is called (the send comes first).
SentWhenPersistStarts(data, sent) == Len(ForwardAudio(data, sent))

\* Every frame with a payload handed to the cache, finalized or not.
ShouldPersist_EveryPayload(data) == data.parses /\ data.audio # ""

\* elevenLabsWs.on('message'), lines 105 and 114: the frame is handed to
\* cacheAudioOutput.
ShouldPersist(data) == data.parses /\ data.audio # "" /\ data.isFinal

\* elevenLabsWs.on('message').
TtsMessage(c, data) ==
    /\ elevenLabsWs[c] \in {"OPEN", "CLOSING"}
    /\ ~abortPending[c]
    /\ frames < MaxFrames
    /\ frames' = frames + 1
    /\ ttsIn' = [ttsIn EXCEPT ![c] = Append(@, data)]
    /\ clientSent' = [clientSent EXCEPT ![c] = ForwardAudio(data, @)]
    /\ IF ShouldPersist(data)
       THEN /\ pendingPersist' = pendingPersist \cup
                  { CacheEntry(voiceSession[c].sessionId,
                               voiceSession[c].conversationId, nextToken) }
            /\ nextToken' = nextToken + 1
            /\ persistCalls' = [persistCalls EXCEPT ![c] = Append(@,
                  [ secureToken |-> nextToken, audio |-> data.audio,
                    frame |-> Len(ttsIn[c]) + 1,
                    sentBefore |-> SentWhenPersistStarts(data, clientSent[c]) ])]
       ELSE UNCHANGED <<pendingPersist, nextToken, persistCalls>>
    /\ UNCHANGED <<routeVars, geminiConfig, clock, activeSessions, phase, voiceSession, elevenLabsWs, abortPending,
                   clientWs, ttsSent, clientIn, fatal, closeCalls, deletes, audioCache>>

\* storage.createAudioCache resolves: the entry is written.
PersistOk(e) ==
    /\ e \in pendingPersist
    /\ pendingPersist' = pendingPersist \ {e}
    /\ audioCache' = audioCache \cup {e}
    /\ UNCHANGED <<routeVars, persistCalls, geminiConfig, frames, clock, activeSessions, phase, voiceSession, elevenLabsWs, abortPending,
                   clientWs, clientSent, ttsSent, clientIn, ttsIn, fatal, closeCalls,
                   deletes, nextToken>>

\* A rejected write reported to the client of the session and tearing it down.
PersistFail_Propagates(e) ==
    /\ e \in pendingPersist
    /\ pendingPersist' = pendingPersist \ {e}
    /\ clientSent' = [c \in Conn |->
            IF \E i \in DOMAIN persistCalls[c] : persistCalls[c][i].secureToken = e.secureToken
            THEN Append(clientSent[c], InitErrorFrame)
            ELSE clientSent[c]]
    /\ SetRegistry(CleanupSession(Registry, e.sessionId))
    /\ UNCHANGED <<routeVars, persistCalls, geminiConfig, frames, clock, phase, clientWs, ttsSent,
                   clientIn, ttsIn, fatal, nextToken, audioCache>>

\* storage.createAudioCache rejects: cacheAudioOutput catches and logs.
PersistFail(e) ==
    /\ e \in pendingPersist
    /\ pendingPersist' = pendingPersist \ {e}
    /\ UNCHANGED <<routeVars, persistCalls, geminiConfig, frames, clock, activeSessions, phase, voiceSession, elevenLabsWs, abortPending,
                   clientWs, clientSent, ttsSent, clientIn, ttsIn, fatal, closeCalls,
                   deletes, nextToken, audioCache>>

\* processAudioInput: the frames it sends to the client.
ProcessAudioInput(sent) == Append(sent, AudioProcessingFrame)

\* processTextInput writing its frame ahead of the frames already written.
ProcessTextInput_Reordered(text, hasWs, readyState, sent) ==
    IF ~hasWs \/ readyState # "OPEN" THEN sent ELSE <<TextFrame(text)>> \o sent

\* processTextInput writing whatever the state of the synthesis socket.
ProcessTextInput_Unguarded(text, hasWs, readyState, sent) == Append(sent, TextFrame(text))

\* processTextInput: the frames written to the synthesis socket.
ProcessTextInput(text, hasWs, readyState, sent) ==
    IF ~hasWs \/ readyState # "OPEN" THEN sent ELSE Append(sent, TextFrame(text))

\* handleStopSpeaking writing whatever the state of the synthesis socket.
HandleStopSpeaking_Unguarded(hasWs, readyState, sent) == Append(sent, FlushFrame)

\* handleStopSpeaking writing an empty text frame without the flush flag.
HandleStopSpeaking_NoFlush(hasWs, readyState, sent) ==
    IF ~hasWs \/ readyState # "OPEN" THEN sent ELSE Append(sent, TextFrame(""))

\* handleStopSpeaking: the frames written to the synthesis socket.
HandleStopSpeaking(hasWs, readyState, sent) ==
    IF ~hasWs \/ readyState # "OPEN" THEN sent ELSE Append(sent, FlushFrame)

\* processTextInput and handleStopSpeaking read the readyState of the synthesis
\* socket; no other branch of the 'message' handler looks at the socket.  TRUE
\* when the frame is a text_input or stop frame and the socket is OPEN.
ReadsOpenSocket(c, data) ==
    /\ data.parses
    /\ data.type \in {"text_input", "stop"}
    /\ elevenLabsWs[c] = "OPEN"

\* The switch answering every frame that fails to parse with an error frame.
OnClientMessage_ToClient_ErrorOnMalformed(data, hasWs, readyState, sent) ==
    CASE ~data.parses -> Append(sent, InitErrorFrame)
      [] data.parses /\ data.type = "audio_input" -> ProcessAudioInput(sent)
      [] OTHER -> sent

\* The switch answering every unknown type with an error frame.
OnClientMessage_ToClient_ErrorOnUnknown(data, hasWs, readyState, sent) ==
    CASE ~data.parses -> sent
      [] data.parses /\ data.type = "audio_input" -> ProcessAudioInput(sent)
      [] data.parses /\ data.type \in {"text_input", "stop"} -> sent
      [] OTHER -> Append(sent, InitErrorFrame)

\* The switch acknowledging audio only while the synthesis socket is open.
OnClientMessage_ToClient_AckWhenOpen(data, hasWs, readyState, sent) ==
    IF data.parses /\ data.type = "audio_input" /\ hasWs /\ readyState = "OPEN"
    THEN ProcessAudioInput(sent)
    ELSE sent

\* clientWs.on('message'), the try block with its switch: the frames the
\* handler sends to the client.  Only the audio_input branch sends one; the
\* catch block and the default branch log.
OnClientMessage_ToClient(data, hasWs, readyState, sent) ==
    IF data.parses /\ data.type = "audio_input"
    THEN ProcessAudioInput(sent)
    ELSE sent

\* clientWs.on('message'), the try block with its switch: the frames the
\* handler writes to the synthesis socket.
OnClientMessage_ToProvider(data, hasWs, readyState, sent) ==
    CASE data.parses /\ data.type = "text_input" ->
              ProcessTextInput(data.text, hasWs, readyState, sent)
      [] data.parses /\ data.type = "stop" ->
              HandleStopSpeaking(hasWs, readyState, sent)
      [] OTHER -> sent

\* The 'message' handler tearing the session down on a stop frame.
ClientMessage_StopCleansUp(c, data) ==
    /\ phase[c] = "inited"
    /\ clientWs[c] = "OPEN"
    /\ frames < MaxFrames
    /\ frames' = frames + 1
    /\ clientIn' = [clientIn EXCEPT ![c] = Append(@, [frame |-> data, open |-> ReadsOpenSocket(c, data)])]
    /\ clientSent' = [clientSent EXCEPT ![c] =
            OnClientMessage_ToClient(data, voiceSession[c].hasWs, elevenLabsWs[c], @)]
    /\ ttsSent' = [ttsSent EXCEPT ![c] =
            OnClientMessage_ToProvider(data, voiceSession[c].hasWs, elevenLabsWs[c], @)]
    /\ IF data.parses /\ data.type = "stop"
       THEN SetRegistry(CleanupSession(Registry, voiceSession[c].sessionId))
       ELSE UNCHANGED <<activeSessions, voiceSession, elevenLabsWs, abortPending,
                        closeCalls, deletes>>
    /\ UNCHANGED <<routeVars, persistCalls, geminiConfig, clock, phase, clientWs, ttsIn, fatal,
                   nextToken, pendingPersist, audioCache>>

\* clientWs.on('message').
ClientMessage(c, data) ==
    /\ phase[c] = "inited"
    /\ clientWs[c] = "OPEN"
    /\ frames < MaxFrames
    /\ frames' = frames + 1
    /\ clientIn' = [clientIn EXCEPT ![c] = Append(@, [frame |-> data, open |-> ReadsOpenSocket(c, data)])]
    /\ clientSent' = [clientSent EXCEPT ![c] =
            OnClientMessage_ToClient(data, voiceSession[c].hasWs, elevenLabsWs[c], @)]
    /\ ttsSent' = [ttsSent EXCEPT ![c] =
            OnClientMessage_ToProvider(data, voiceSession[c].hasWs, elevenLabsWs[c], @)]
    /\ UNCHANGED <<routeVars, persistCalls, geminiConfig, clock, activeSessions, phase, voiceSession, elevenLabsWs, abortPending,
                   clientWs, ttsIn, fatal, closeCalls, deletes, nextToken, pendingPersist,
                   audioCache>>

\* clientWs.on('close'); the handler exists once setupClientHandlers has run.
ClientClose(c) ==
    /\ phase[c] # "idle"
    /\ clientWs[c] = "OPEN"
    /\ clientWs' = [clientWs EXCEPT ![c] = "CLOSED"]
    /\ IF phase[c] = "inited"
       THEN SetRegistry(CleanupSession(Registry, voiceSession[c].sessionId))
       ELSE UNCHANGED <<activeSessions, voiceSession, elevenLabsWs, abortPending,
                        closeCalls, deletes>>
    /\ UNCHANGED <<routeVars, persistCalls, geminiConfig, frames, clock, phase, clientSent, ttsSent, clientIn, ttsIn, fatal, nextToken,
                   pendingPersist, audioCache>>

Next ==
    \/ Tick
    \/ \E c \in Conn, sid \in SessionIds, conv \in ConversationIds,
          personality \in SessionPersonalities, t \in BOOLEAN :
          InitializeVoiceSession(c, sid, conv, personality, t)
    \/ \E c \in Conn : TtsOpen(c)
    \/ \E c \in Conn : TtsConnectError(c)
    \/ \E c \in Conn : TtsTransportError(c)
    \/ \E c \in Conn : TtsAbortError(c)
    \/ \E c \in Conn : TtsClosed(c)
    \/ \E c \in Conn, data \in TtsFrames : TtsMessage(c, data)
    \/ \E e \in pendingPersist : PersistOk(e)
    \/ \E e \in pendingPersist : PersistFail(e)
    \/ \E c \in Conn, data \in ClientFrames : ClientMessage(c, data)
    \/ \E c \in Conn : ClientClose(c)

Spec == Init /\ [][Next]_vars

\* The calls of initializeVoiceSession alone, with every personality name.
PromptNext ==
    \/ Tick
    \/ \E c \in Conn, sid \in SessionIds, conv \in ConversationIds,
          personality \in Personalities, t \in BOOLEAN :
          InitializeVoiceSession(c, sid, conv, personality, t)

PromptSpec == Init /\ [][PromptNext]_vars

\* ------------------------------------------------------------------ routes.ts

\* One step of a request is the stretch of its handler between two awaits:
\* the awaited call resolves (or rejects) and the handler runs on to the next
\* await or to its response.  request[r].pc names the call awaited.  The
\* requestImage flag only changes the prompt text and is left out.

\* res.status(status).json(body): the handler is done.
Respond(req, status, body) == [req EXCEPT !.pc = "done", !.status = status, !.body = body]

\* The handler awaits the call `pc`.
Await(req, pc) == [req EXCEPT !.pc = pc]

\* The call awaited by r has resolved.
Resolved(r) == calls' = [calls EXCEPT ![r] = Append(@, [call |-> request[r].pc, ok |-> TRUE])]

\* checkMessageRateLimit(session).allowed: the session has sent fewer
\* messages in this window than its limit.
Allowed(count) == count < MessageLimit

\* The ownership test passing for every conversation that exists.
Owns_AnyExisting(session, id) == id \in DOMAIN conversations

\* !(!conversation || conversation.sessionId !== session.id): the
\* conversation exists and belongs to the session.
Owns(session, id) == id \in DOMAIN conversations /\ conversations[id] = session

\* app.post("/api/messages"): the request arrives; content is validated.
PostMessages(r, session, content, conversationId) ==
    /\ request[r].pc = "idle"
    /\ LET req == [NoRequest EXCEPT !.method = "POST", !.session = session,
                                    !.content = content, !.conversationId = conversationId]
       IN  request' = [request EXCEPT ![r] =
                IF content = ""
                THEN Respond(req, 400, <<>>)
                ELSE Await(req, "checkMessageRateLimit")]
    /\ UNCHANGED <<messageCount, conversations, messages, webhookLogs, calls, voiceVars>>

\* await checkMessageRateLimit(session) resolves: 429, or on to the conversation.
CheckMessageRateLimit(r) ==
    /\ request[r].pc = "checkMessageRateLimit"
    /\ Resolved(r)
    /\ request' = [request EXCEPT ![r] =
            IF ~Allowed(messageCount[@.session])
            THEN Respond(@, 429, <<>>)
            ELSE IF @.conversationId # NoConversation
                 THEN Await(@, "getConversation")
                 ELSE Await(@, "createConversation")]
    /\ UNCHANGED <<messageCount, conversations, messages, webhookLogs, voiceVars>>

\* await storage.getConversation(conversationId) resolves in POST /api/messages.
GetConversation(r) ==
    /\ request[r].method = "POST"
    /\ request[r].pc = "getConversation"
    /\ Resolved(r)
    /\ request' = [request EXCEPT ![r] =
            IF Owns(@.session, @.conversationId)
            THEN Await([@ EXCEPT !.conversation = request[r].conversationId], "createMessage:user")
            ELSE Respond(@, 404, <<>>)]
    /\ UNCHANGED <<messageCount, conversations, messages, webhookLogs, voiceVars>>

\* await storage.createConversation({sessionId, title}) resolves.
CreateConversation(r) ==
    /\ request[r].pc = "createConversation"
    /\ Resolved(r)
    /\ conversations' = Append(conversations, request[r].session)
    /\ request' = [request EXCEPT ![r] =
            Await([@ EXCEPT !.conversation = Len(conversations) + FirstConversation],
                  "createMessage:user")]
    /\ UNCHANGED <<messageCount, messages, webhookLogs, voiceVars>>

\* await storage.createMessage resolves: the user message, the AI response
\* or the error message.
CreateMessage(r) ==
    /\ request[r].pc \in {"createMessage:user", "createMessage:assistant", "createMessage:error"}
    /\ Resolved(r)
    /\ LET pc == request[r].pc
           message == [ conversationId |-> request[r].conversation,
                        role |-> IF pc = "createMessage:user" THEN "user" ELSE "assistant",
                        content |-> CASE pc = "createMessage:user" -> request[r].content
                                      [] pc = "createMessage:assistant" -> "response"
                                      [] OTHER -> "I apologize, but I encountered an error" ]
       IN  /\ messages' = Append(messages, message)
           /\ request' = [request EXCEPT ![r] = Await(@,
                   CASE pc = "createMessage:user" -> "axios.post"
                     [] pc = "createMessage:assistant" -> "incrementMessageCount"
                     [] OTHER -> "incrementMessageCount:error")]
    /\ UNCHANGED <<messageCount, conversations, webhookLogs, voiceVars>>

\* await axios.post(N8N_WEBHOOK_URL, ...) resolves.
AxiosPost(r) ==
    /\ request[r].pc = "axios.post"
    /\ Resolved(r)
    /\ request' = [request EXCEPT ![r] = Await(@, "createWebhookLog:success")]
    /\ UNCHANGED <<messageCount, conversations, messages, webhookLogs, voiceVars>>

\* await storage.createWebhookLog resolves, in the try or in its catch block.
CreateWebhookLog(r) ==
    /\ request[r].pc \in {"createWebhookLog:success", "createWebhookLog:error"}
    /\ Resolved(r)
    /\ webhookLogs' = Append(webhookLogs,
            [ sessionId |-> request[r].session, conversationId |-> request[r].conversation,
              status |-> IF request[r].pc = "createWebhookLog:success" THEN "success" ELSE "error" ])
    /\ request' = [request EXCEPT ![r] = Await(@, "generateContent")]
    /\ UNCHANGED <<messageCount, conversations, messages, voiceVars>>

\* await gemini.models.generateContent resolves.
GenerateContent(r) ==
    /\ request[r].pc = "generateContent"
    /\ Resolved(r)
    /\ request' = [request EXCEPT ![r] = Await(@, "createMessage:assistant")]
    /\ UNCHANGED <<messageCount, conversations, messages, webhookLogs, voiceVars>>

\* await incrementMessageCount(session.id) resolves, in the try or in its
\* catch block: the message is counted and the response sent.
IncrementMessageCount(r) ==
    /\ request[r].pc \in {"incrementMessageCount", "incrementMessageCount:error"}
    /\ Resolved(r)
    /\ messageCount' = [messageCount EXCEPT ![request[r].session] = @ + 1]
    /\ request' = [request EXCEPT ![r] = Respond(@, 200, <<>>)]
    /\ UNCHANGED <<conversations, messages, webhookLogs, voiceVars>>

\* Every rejection answered 500: no catch block around the webhook or the
\* generation.
Rejects_NoInnerCatch(r) ==
    /\ request[r].pc \notin {"idle", "done"}
    /\ request' = [request EXCEPT ![r] = Respond(@, 500, <<>>)]
    /\ calls' = [calls EXCEPT ![r] = Append(@, [call |-> request[r].pc, ok |-> FALSE])]
    /\ UNCHANGED <<messageCount, conversations, messages, webhookLogs, voiceVars>>

\* The call awaited by r rejects (a rejected call has changed nothing): the
\* catch block around it runs.  The webhook's catch writes the error log,
\* the generation's catch saves the error message, the outermost answers 500.
Rejects(r) ==
    /\ request[r].pc \notin {"idle", "done"}
    /\ request' = [request EXCEPT ![r] =
            CASE @.pc \in {"axios.post", "createWebhookLog:success"} ->
                      Await(@, "createWebhookLog:error")
              [] @.pc \in {"generateContent", "createMessage:assistant", "incrementMessageCount"} ->
                      Await(@, "createMessage:error")
              [] OTHER -> Respond(@, 500, <<>>)]
    /\ calls' = [calls EXCEPT ![r] = Append(@, [call |-> request[r].pc, ok |-> FALSE])]
    /\ UNCHANGED <<messageCount, conversations, messages, webhookLogs, voiceVars>>

\* app.get("/api/conversations/:id/messages"): the request arrives.
GetMessages(r, session, id) ==
    /\ request[r].pc = "idle"
    /\ request' = [request EXCEPT ![r] =
            Await([NoRequest EXCEPT !.method = "GET", !.session = session,
                                    !.conversationId = id], "getConversation")]
    /\ UNCHANGED <<messageCount, conversations, messages, webhookLogs, calls, voiceVars>>

\* await storage.getConversation(id) resolves in GET .../messages.
GetConversationOfMessages(r) ==
    /\ request[r].method = "GET"
    /\ request[r].pc = "getConversation"
    /\ Resolved(r)
    /\ request' = [request EXCEPT ![r] =
            IF Owns(@.session, @.conversationId)
            THEN Await(@, "getMessagesByConversation")
            ELSE Respond(@, 404, <<>>)]
    /\ UNCHANGED <<messageCount, conversations, messages, webhookLogs, voiceVars>>

\* await storage.getMessagesByConversation(id) resolves: res.json(messages).
GetMessagesByConversation(r) ==
    /\ request[r].pc = "getMessagesByConversation"
    /\ Resolved(r)
    /\ request' = [request EXCEPT ![r] = Respond(@, 200,
            SelectSeq(messages, LAMBDA m : m.conversationId = request[r].conversationId))]
    /\ UNCHANGED <<messageCount, conversations, messages, webhookLogs, voiceVars>>

RoutesNext ==
    \/ \E r \in Req, session \in Sessions, content \in Contents,
          id \in {NoConversation, FirstConversation} : PostMessages(r, session, content, id)
    \/ \E r \in Req : CheckMessageRateLimit(r)
    \/ \E r \in Req : GetConversation(r)
    \/ \E r \in Req : CreateConversation(r)
    \/ \E r \in Req : CreateMessage(r)
    \/ \E r \in Req : AxiosPost(r)
    \/ \E r \in Req : CreateWebhookLog(r)
    \/ \E r \in Req : GenerateContent(r)
    \/ \E r \in Req : IncrementMessageCount(r)
    \/ \E r \in Req : Rejects(r)
    \/ \E r \in Req, session \in Sessions : GetMessages(r, session, FirstConversation)
    \/ \E r \in Req : GetConversationOfMessages(r)
    \/ \E r \in Req : GetMessagesByConversation(r)

\* The routes, the sessions anywhere in their window when the requests arrive
\* (both equally far into it).
RoutesInit ==
    /\ VoiceInit
    /\ \E used \in 0..MessageLimit : RouteInit([s \in Sessions |-> used])

RoutesSpec == RoutesInit /\ [][RoutesNext]_vars


\* ------------------------------------------------------------------ properties

\* The calls of initializeVoiceSession made so far.
Started == {c \in Conn : phase[c] # "idle"}

\* The session object of c is an entry of the registry.
InRegistry(c) == \E k \in DOMAIN activeSessions : activeSessions[k] = c

\* The synthesis socket of c has reached OPEN (its 'open' handler wrote the
\* configuration frame).
Opened(c) == ttsSent[c] # <<>>

FramesOfType(sent, type) == SelectSeq(sent, LAMBDA f : f.type = type)

MapSeq(seq, Op(_)) == [i \in 1..Len(seq) |-> Op(seq[i])]

\* The keys initializeVoiceSession can build.
Keys == {StreamSessionId(s, t) : s \in SessionIds, t \in Instants}

\* The service has no step of its own left to take: no 'error' event of an
\* aborted handshake and no persist call is outstanding.
ServiceIdle == pendingPersist = {} /\ \A c \in Conn : ~abortPending[c]

\* C1: the session keys inserted into the registry are pairwise distinct,
\* also for two calls with the same sessionId at the same instant.
C1_KeysPairwiseDistinct ==
    \A a, b \in Started :
        a # b => voiceSession[a].sessionId # voiceSession[b].sessionId

\* C2: voice_ready is sent to a client only after the session's synthesis
\* socket has reached OPEN (so never when the connection fails to open).
C2_ReadyOnlyAfterOpen ==
    \A c \in Conn :
        FramesOfType(clientSent[c], "voice_ready") # <<>> => Opened(c)

\* C3: when the synthesis socket fails to open, at construction or by its
\* 'error' event, an error frame is sent and the session's entry is removed
\* from the registry in handling the failure.
C3_OpenFailureRemovesEntry ==
    \A c \in Conn :
        fatal[c] \in {"construct", "connect"} =>
            /\ FramesOfType(clientSent[c], "error") # <<>>
            /\ ~InRegistry(c)

\* C4: after a transport error on its synthesis socket a session is torn
\* down, whether or not its client disconnects: once the service has no step
\* left to take, the socket is closed and the registry entry is gone.
C4_TransportErrorTearsDown ==
    \A c \in Conn :
        (fatal[c] = "transport" /\ ServiceIdle) =>
            /\ elevenLabsWs[c] = "CLOSED"
            /\ ~InRegistry(c)

\* C5: the client is sent exactly one error frame per fatal upstream
\* condition of its session, and none otherwise (none from teardown).
C5_OneErrorFramePerFatal ==
    \A c \in Conn :
        Len(FramesOfType(clientSent[c], "error")) = IF fatal[c] = "none" THEN 0 ELSE 1

\* C6: the close event of a session's client socket requests the closure of
\* that session's synthesis socket and removes that session's entry, and
\* nothing else tears an initialized session down.
C6_ClientCloseTearsDownOwnSession ==
    \A c \in Conn :
        phase[c] = "inited" =>
            /\ clientWs[c] = "CLOSED" => (closeCalls[c] >= 1 /\ ~InRegistry(c))
            /\ closeCalls[c] >= 1 => clientWs[c] = "CLOSED"

\* The step is an event of session c that the service handles: a frame or
\* the close of its client socket, or a fatal condition of its synthesis
\* socket (at construction, on connecting or later).
OwnEvent(c) ==
    \/ clientWs'[c] # clientWs[c]
    \/ clientIn'[c] # clientIn[c]
    \/ fatal'[c] # fatal[c]

\* C7: no event of one session closes the synthesis socket of another
\* session, removes its registry entry or sends a frame to its client.
C7_SessionsIsolated ==
    [][ \A a, b \in Conn :
          (a # b /\ OwnEvent(a)) =>
              /\ closeCalls'[b] = closeCalls[b]
              /\ elevenLabsWs'[b] = elevenLabsWs[b]
              /\ InRegistry(b)' = InRegistry(b)
              /\ clientSent'[b] = clientSent[b] ]_vars

\* C8: cleanupSession is idempotent.  On a key that is not in the registry
\* it changes nothing and closes no socket; a second call after a first one
\* changes nothing; no session object is deleted twice.
C8_CleanupIdempotent ==
    /\ \A k \in Keys :
          LET once == CleanupSession(Registry, k)
          IN  /\ CleanupSession(once, k) = once
              /\ k \notin DOMAIN activeSessions => once = Registry
    /\ \A c \in Conn : deletes[c] <= 1 /\ closeCalls[c] <= 1

\* cleanupSession has run on a key that was no longer in the registry: two
\* sessions shared a key and both clients have disconnected.
C8_Witness ==
    \E a, b \in Conn :
        /\ a # b
        /\ phase[a] = "inited" /\ phase[b] = "inited"
        /\ voiceSession[a].sessionId = voiceSession[b].sessionId
        /\ clientWs[a] = "CLOSED" /\ clientWs[b] = "CLOSED"
        /\ deletes[a] + deletes[b] = 1

\* The provider frame a text_input or stop frame asks for.
DirectiveFrame(frame) ==
    IF frame.type = "text_input" THEN TextFrame(frame.text) ELSE FlushFrame

\* The text_input and stop frames session c received while its synthesis
\* socket was OPEN, in the order received.
DirectivesReceived(c) ==
    MapSeq(SelectSeq(clientIn[c],
                     LAMBDA m : m.open /\ m.frame.parses
                                /\ m.frame.type \in {"text_input", "stop"}),
           LAMBDA m : m.frame)

\* The frames written to the provider after the configuration frame.
DirectivesSent(c) == SelectSeq(ttsSent[c], LAMBDA f : f.flag # "voice_settings")

\* C9: the directives written to the provider of a session are exactly the
\* text_input and stop frames received while its synthesis socket was OPEN,
\* in the order received: none dropped, duplicated or reordered.
C9_DirectivesInOrder ==
    \A c \in Conn : DirectivesSent(c) = MapSeq(DirectivesReceived(c), DirectiveFrame)

\* A session has written a text directive and then a flush.
C9_Witness ==
    \E c \in Conn : DirectivesSent(c) = <<TextFrame("a"), FlushFrame>>

\* The provider frames of session c that carry an audio payload.
PayloadFrames(c) == SelectSeq(ttsIn[c], LAMBDA d : d.parses /\ d.audio # "")

\* C10: the audio_output frames sent to a session's client are, one for one
\* and in order, the provider frames that carry an audio payload, also while
\* persist calls for earlier finalized frames are pending.
C10_AudioForwardedInOrder ==
    \A c \in Conn :
        FramesOfType(clientSent[c], "audio_output")
            = MapSeq(PayloadFrames(c), LAMBDA d : AudioOutputFrame(d.audio))

\* A finalized frame and then another frame were forwarded while the persist
\* call of the first was still pending.
C10_Witness ==
    \E c \in Conn :
        /\ FramesOfType(clientSent[c], "audio_output")
              = <<AudioOutputFrame("p"), AudioOutputFrame("q")>>
        /\ \E e \in pendingPersist : e.sessionId = voiceSession[c].sessionId

\* The persist call has been rejected: its entry is neither pending nor stored.
PersistRejected(call) ==
    \A e \in pendingPersist \cup audioCache : e.secureToken # call.secureToken

\* The persist call has not completed.
PersistPending(call) ==
    \E e \in pendingPersist : e.secureToken = call.secureToken

\* C11: for every finalized provider frame with a payload, the audio_output
\* frame of that payload has been passed to the client socket when the
\* persist call for it starts, and it stays sent whatever becomes of the
\* persist call (stored, rejected or still pending).
C11_SentBeforePersist ==
    \A c \in Conn : \A i \in DOMAIN persistCalls[c] :
        LET call == persistCalls[c][i]
            upTo == SubSeq(ttsIn[c], 1, call.frame)
        IN  /\ ttsIn[c][call.frame].audio = call.audio
            /\ call.sentBefore \in 1..Len(clientSent[c])
            /\ clientSent[c][call.sentBefore] = [type |-> "audio_output", data |-> call.audio]
            /\ Len(FramesOfType(SubSeq(clientSent[c], 1, call.sentBefore), "audio_output"))
                 = Len(SelectSeq(upTo, LAMBDA d : d.parses /\ d.audio # ""))

\* Two finalized frames forwarded, the first persist rejected, the second pending.
C11_Witness ==
    \E c \in Conn :
        /\ Len(persistCalls[c]) = 2
        /\ PersistRejected(persistCalls[c][1])
        /\ PersistPending(persistCalls[c][2])
        /\ Len(FramesOfType(clientSent[c], "audio_output")) = 2

\* A step in which a storage write is rejected.
PersistFailStep ==
    /\ pendingPersist' # pendingPersist
    /\ pendingPersist' \subseteq pendingPersist
    /\ audioCache' = audioCache

\* The step sends no frame, to any client or to the provider.
NoFrameSent == clientSent' = clientSent /\ ttsSent' = ttsSent

\* The step leaves the registry, the session objects and the synthesis sockets alone.
SessionsUntouched ==
    /\ activeSessions' = activeSessions
    /\ voiceSession' = voiceSession
    /\ elevenLabsWs' = elevenLabsWs
    /\ closeCalls' = closeCalls
    /\ deletes' = deletes

\* The provider frame received in this step by the session of c.
TtsFrameIn(c) == ttsIn'[c][Len(ttsIn'[c])]

\* C12: a rejected storage write sends no frame (so no error frame) to any
\* client and leaves the registry and the synthesis sockets untouched; a
\* provider frame with a payload received after a rejected write is still
\* forwarded to the client.
C12_PersistFailureContained ==
    [][ /\ PersistFailStep => (NoFrameSent /\ SessionsUntouched)
        /\ \A c \in Conn :
             ( /\ ttsIn'[c] # ttsIn[c]
               /\ \E i \in DOMAIN persistCalls[c] : PersistRejected(persistCalls[c][i])
               /\ TtsFrameIn(c).parses /\ TtsFrameIn(c).audio # "" )
             => clientSent'[c] = Append(clientSent[c],
                                        [type |-> "audio_output", data |-> TtsFrameIn(c).audio])
      ]_vars

\* A write was rejected, the session is still registered with its socket
\* open, and a later payload frame has been forwarded.
C12_Witness ==
    \E c \in Conn :
        /\ Len(persistCalls[c]) = 1
        /\ PersistRejected(persistCalls[c][1])
        /\ Len(ttsIn[c]) = 2
        /\ persistCalls[c][1].frame = 1
        /\ FramesOfType(clientSent[c], "audio_output")
             = <<AudioOutputFrame("p"), AudioOutputFrame("q")>>
        /\ FramesOfType(clientSent[c], "error") = <<>>
        /\ InRegistry(c)
        /\ elevenLabsWs[c] = "OPEN"

\* The session of c receives a client frame in this step; the frame.
ClientFrameStep(c) == clientIn'[c] # clientIn[c]
ClientFrameIn(c) == clientIn'[c][Len(clientIn'[c])].frame

\* C13: a client frame that fails to parse sends no frame to the client or
\* the provider, removes no session and closes no socket; a stop frame that
\* follows it is processed as without it: one flush frame to the provider if
\* the synthesis socket is open, nothing otherwise, and nothing to the client.
C13_MalformedFrameIgnored ==
    [][ \A c \in Conn : ClientFrameStep(c) =>
          /\ ~ClientFrameIn(c).parses => (NoFrameSent /\ SessionsUntouched)
          /\ ( /\ ClientFrameIn(c).parses /\ ClientFrameIn(c).type = "stop"
               /\ clientIn[c] # <<>>
               /\ ~clientIn[c][Len(clientIn[c])].frame.parses )
             => /\ ttsSent'[c] = IF elevenLabsWs[c] = "OPEN"
                                 THEN Append(ttsSent[c], [text |-> "", flag |-> "flush"])
                                 ELSE ttsSent[c]
                /\ clientSent' = clientSent
                /\ SessionsUntouched
      ]_vars

\* A malformed frame, then a stop frame, and the flush frame written.
C13_Witness ==
    \E c \in Conn :
        /\ Len(clientIn[c]) = 2
        /\ ~clientIn[c][1].frame.parses
        /\ clientIn[c][2].frame.parses /\ clientIn[c][2].frame.type = "stop"
        /\ ttsSent[c] = <<ConfigFrame, FlushFrame>>
        /\ clientSent[c] = <<VoiceReadyFrame>>
        /\ InRegistry(c)

\* C14: a well-formed client frame of an unknown type sends no frame to the
\* client or the provider and leaves the registry and the session unchanged.
C14_UnknownTypeIgnored ==
    [][ \A c \in Conn :
          ( /\ ClientFrameStep(c)
            /\ ClientFrameIn(c).parses
            /\ ClientFrameIn(c).type \notin {"audio_input", "text_input", "stop"} )
          => /\ NoFrameSent
             /\ SessionsUntouched
             /\ phase' = phase /\ fatal' = fatal /\ clientWs' = clientWs
      ]_vars

\* A ping frame received by a registered session with nothing sent for it.
C14_Witness ==
    \E c \in Conn :
        /\ Len(clientIn[c]) = 1
        /\ clientIn[c][1].frame.parses /\ clientIn[c][1].frame.type = "ping"
        /\ clientSent[c] = <<VoiceReadyFrame>>
        /\ ttsSent[c] = <<ConfigFrame>>
        /\ InRegistry(c)
        /\ frames = MaxFrames

\* The client frame received in this step is a text_input or a stop frame.
DirectiveStep(c) ==
    /\ ClientFrameStep(c)
    /\ ClientFrameIn(c).parses
    /\ ClientFrameIn(c).type \in {"text_input", "stop"}

\* C15: a text_input or stop frame received while the synthesis socket is
\* absent or not OPEN is dropped: the step writes nothing to the provider,
\* sends nothing to the client and leaves the registry alone, and nothing is
\* written for it later (the provider has only ever been written one frame
\* per directive received while the socket was OPEN).
C15_DirectiveDroppedWhenNotOpen ==
    /\ [](\A c \in Conn : Len(DirectivesSent(c)) = Len(DirectivesReceived(c)))
    /\ [][ \A c \in Conn :
             (DirectiveStep(c) /\ (~voiceSession[c].hasWs \/ elevenLabsWs[c] # "OPEN"))
             => (NoFrameSent /\ SessionsUntouched)
         ]_vars

\* A directive received before the synthesis socket opened; the socket has
\* opened since and only the configuration frame has been written.
C15_Witness ==
    \E c \in Conn :
        /\ \E i \in DOMAIN clientIn[c] :
              /\ ~clientIn[c][i].open
              /\ clientIn[c][i].frame.parses
              /\ clientIn[c][i].frame.type \in {"text_input", "stop"}
        /\ elevenLabsWs[c] = "OPEN"
        /\ ttsSent[c] = <<ConfigFrame>>
        /\ FramesOfType(clientSent[c], "error") = <<>>
        /\ InRegistry(c)

\* C16: with the synthesis socket OPEN, a text_input frame with text t writes
\* exactly the frame {text: t, try_trigger_generation: true} to the provider,
\* a stop frame exactly {text: "", flush: true}, and neither sends a frame to
\* the client.
C16_OneProviderFramePerDirective ==
    [][ \A c \in Conn :
          (DirectiveStep(c) /\ voiceSession[c].hasWs /\ elevenLabsWs[c] = "OPEN")
          => /\ ttsSent'[c] = Append(ttsSent[c],
                   IF ClientFrameIn(c).type = "text_input"
                   THEN [text |-> ClientFrameIn(c).text, flag |-> "try_trigger_generation"]
                   ELSE [text |-> "", flag |-> "flush"])
             /\ \A o \in Conn \ {c} : ttsSent'[o] = ttsSent[o]
             /\ clientSent' = clientSent
      ]_vars

\* A stop frame, then a text_input frame, both written to the open socket.
C16_Witness ==
    \E c \in Conn :
        /\ ttsSent[c] = <<ConfigFrame, FlushFrame, TextFrame("a")>>
        /\ clientSent[c] = <<VoiceReadyFrame>>

\* C17: no client frame, of any kind and at any point, removes the session
\* from the registry or closes its synthesis socket.
C17_ClientFramesNeverTearDown ==
    [][ \A c \in Conn : ClientFrameStep(c) => SessionsUntouched ]_vars

\* Two client frames received, a stop first; the session is still
\* registered and its synthesis socket open.
C17_Witness ==
    \E c \in Conn :
        /\ Len(clientIn[c]) = 2
        /\ clientIn[c][1].frame.parses /\ clientIn[c][1].frame.type = "stop"
        /\ InRegistry(c)
        /\ voiceSession[c].isActive
        /\ elevenLabsWs[c] = "OPEN"
        /\ closeCalls[c] = 0

\* C18: each audio_input frame sends exactly one audio_processing frame to
\* the client, whatever the state of the synthesis socket, and writes
\* nothing to the provider.
C18_AudioInputAcknowledged ==
    [][ \A c \in Conn :
          (ClientFrameStep(c) /\ ClientFrameIn(c).parses /\ ClientFrameIn(c).type = "audio_input")
          => /\ Len(clientSent'[c]) = Len(clientSent[c]) + 1
             /\ SubSeq(clientSent'[c], 1, Len(clientSent[c])) = clientSent[c]
             /\ clientSent'[c][Len(clientSent'[c])].type = "audio_processing"
             /\ \A o \in Conn \ {c} : clientSent'[o] = clientSent[o]
             /\ ttsSent' = ttsSent
      ]_vars

\* Two audio_input frames received while the synthesis socket is still
\* connecting, each acknowledged.
C18_Witness ==
    \E c \in Conn :
        /\ Len(clientIn[c]) = 2
        /\ \A i \in 1..2 : clientIn[c][i].frame.parses /\ clientIn[c][i].frame.type = "audio_input"
        /\ elevenLabsWs[c] = "CONNECTING"
        /\ Len(FramesOfType(clientSent[c], "audio_processing")) = 2
        /\ ttsSent[c] = <<>>

\* Provider frames of the session carrying the finalization flag, and those
\* carrying it together with a payload.
FinalizedFrames(c) == SelectSeq(ttsIn[c], LAMBDA d : d.parses /\ d.isFinal)
FinalizedPayloadFrames(c) == SelectSeq(ttsIn[c], LAMBDA d : d.parses /\ d.isFinal /\ d.audio # "")

\* Cache entries written by the persist calls of the session.
EntriesWritten(c) ==
    { e \in audioCache :
        \E i \in DOMAIN persistCalls[c] : persistCalls[c][i].secureToken = e.secureToken }

\* C19 as stated: one cache-persist call for each provider frame that carries
\* its finalization flag, none for any other frame.
C19_OnePersistPerFinalizedFrame ==
    \A c \in Conn : Len(persistCalls[c]) = Len(FinalizedFrames(c))

\* C19: exactly one cache-persist call is made for each provider frame that
\* carries an audio payload and its finalization flag, none for a frame
\* without a payload or without the flag, and the cache entries written for
\* a session never outnumber the finalized frames it received.
C19_OnePersistPerFinalizedPayload ==
    \A c \in Conn :
        /\ Len(persistCalls[c]) = Len(FinalizedPayloadFrames(c))
        /\ \A i \in DOMAIN persistCalls[c] :
              LET d == ttsIn[c][persistCalls[c][i].frame]
              IN  d.parses /\ d.isFinal /\ d.audio # ""
        /\ \A i, j \in DOMAIN persistCalls[c] :
              i # j => persistCalls[c][i].frame # persistCalls[c][j].frame
        /\ Cardinality(EntriesWritten(c)) <= Len(FinalizedFrames(c))

\* A finalized frame without a payload and a finalized frame with one: one
\* persist call, its entry written.
C19_Witness ==
    \E c \in Conn :
        /\ Len(FinalizedFrames(c)) = 2
        /\ Len(FinalizedPayloadFrames(c)) = 1
        /\ Len(persistCalls[c]) = 1
        /\ Cardinality(EntriesWritten(c)) = 1

\* C20: getPersonalitySystemPrompt returns the prompt of the named
\* personality for the three known names and the fixed default prompt for
\* every other name, always a prompt string.
C20_PromptForEveryName ==
    \A c \in Conn : phase[c] = "inited" =>
        LET name == geminiConfig[c].personality
            known == {"AUtistic AI", "Level 1 ASD", "Savantist"}
        IN  /\ geminiConfig[c].system_instruction.type = "string"
            /\ geminiConfig[c].system_instruction.value =
                  IF name \in known THEN Prompts[name] ELSE Prompts["AUtistic AI"]

\* The session of c was registered and its entry is no longer in the registry.
TornDown(c) == phase[c] = "inited" /\ ~InRegistry(c)

\* The step sends no audio_output or error frame to the client of c, starts
\* no persist call and stores no cache entry for c, and writes nothing to
\* the synthesis socket of c.
SilentFor(c) ==
    /\ FramesOfType(clientSent'[c], "audio_output") = FramesOfType(clientSent[c], "audio_output")
    /\ FramesOfType(clientSent'[c], "error") = FramesOfType(clientSent[c], "error")
    /\ persistCalls'[c] = persistCalls[c]
    /\ EntriesWritten(c)' = EntriesWritten(c)
    /\ ttsSent'[c] = ttsSent[c]

\* C21: teardown is terminal: once the registry entry of a session has been
\* removed, no audio_output or error frame is sent to its client, no cache
\* entry is persisted for it and nothing is written to its synthesis socket.
\* Stated for a session torn down by the close of its own client, with no
\* other session sharing its key.
C21_TeardownTerminal ==
    [][ \A c \in Conn :
          ( /\ TornDown(c)
            /\ clientWs[c] = "CLOSED"
            /\ \A o \in Started \ {c} : voiceSession[o].sessionId # voiceSession[c].sessionId )
          => SilentFor(c) ]_vars

\* The persist calls of all sessions, each with the connection that made it.
AllPersistCalls ==
    UNION { { [conn |-> c, call |-> persistCalls[c][i]] : i \in DOMAIN persistCalls[c] } : c \in Conn }

\* C22: every persist call obtains one new token from the generator (the
\* generator never repeats a value); the entry it hands to storage has its
\* audioUrl derived from exactly that token and carries the session key and
\* the conversationId of the session that received the fragment; no two
\* entries share a token.
C22_FreshTokenPerEntry ==
    /\ Cardinality(AllPersistCalls) = nextToken - 1
    /\ \A p, q \in AllPersistCalls : p # q => p.call.secureToken # q.call.secureToken
    /\ \A e \in pendingPersist \cup audioCache :
          /\ e.audioUrl = <<"/api/audio/", e.secureToken>>
          /\ \E p \in AllPersistCalls :
                /\ p.call.secureToken = e.secureToken
                /\ e.sessionId = voiceSession[p.conn].sessionId
                /\ e.conversationId = voiceSession[p.conn].conversationId
    /\ \A e, f \in pendingPersist \cup audioCache : e # f => e.secureToken # f.secureToken

\* Two sessions with different keys, one entry stored for each.
C22_Witness ==
    \E a, b \in Conn :
        /\ voiceSession[a].sessionId # voiceSession[b].sessionId
        /\ Cardinality(EntriesWritten(a)) = 1
        /\ Cardinality(EntriesWritten(b)) = 1
        /\ \A e \in EntriesWritten(a) : e.sessionId = voiceSession[a].sessionId
        /\ \A e \in EntriesWritten(b) : e.sessionId = voiceSession[b].sessionId

\* C23: on every synthesis socket the first frame written is the
\* configuration frame, written exactly once, when the socket opens: nothing
\* is written while the socket is connecting, an open socket has been written
\* the configuration frame, no directive precedes it, and the directives
\* written are exactly those received while the socket was OPEN (a directive
\* received earlier is dropped, not replayed).
C23_ConfigFrameFirst ==
    \A c \in Conn :
        /\ elevenLabsWs[c] \in {"NONE", "CONNECTING"} => ttsSent[c] = <<>>
        /\ elevenLabsWs[c] = "OPEN" => ttsSent[c] # <<>>
        /\ ttsSent[c] # <<>> =>
              /\ ttsSent[c][1] = [text |-> " ", flag |-> "voice_settings"]
              /\ \A i \in 2..Len(ttsSent[c]) : ttsSent[c][i].flag # "voice_settings"
        /\ Len(ttsSent[c]) =
              (IF ttsSent[c] = <<>> THEN 0 ELSE 1)
              + Len(SelectSeq(clientIn[c], LAMBDA m : m.open))

\* A text_input frame received before the socket opened and one received
\* after: the provider has seen the configuration frame, then one text frame.
C23_Witness ==
    \E c \in Conn :
        /\ Len(clientIn[c]) = 2
        /\ \A i \in 1..2 : clientIn[c][i].frame.parses /\ clientIn[c][i].frame.type = "text_input"
        /\ ~clientIn[c][1].open
        /\ clientIn[c][2].open
        /\ ttsSent[c] = <<ConfigFrame, TextFrame("a")>>

\* C24: no resource leaks: once the client socket of every session created
\* has closed, the registry is empty and close has been requested on every
\* synthesis socket that was created.
C24_NoLeaks ==
    (Started # {} /\ \A c \in Started : clientWs[c] = "CLOSED") =>
        /\ DOMAIN activeSessions = {}
        /\ \A c \in Started : voiceSession[c].hasWs => closeCalls[c] >= 1

\* The calls of request r among `names` that resolved; those that rejected.
ResolvedCalls(r, names) == SelectSeq(calls[r], LAMBDA x : x.ok /\ x.call \in names)
RejectedCalls(r, names) == SelectSeq(calls[r], LAMBDA x : ~x.ok /\ x.call \in names)

\* How often request r has incremented the message count of its session.
Increments(r) ==
    Len(ResolvedCalls(r, {"incrementMessageCount", "incrementMessageCount:error"}))

\* POST requests that have been answered.
Answered == {r \in Req : request[r].pc = "done" /\ request[r].method = "POST"}

\* The request got as far as the AI generation: its webhook log was written.
ReachedGeneration(r) ==
    ResolvedCalls(r, {"createWebhookLog:success", "createWebhookLog:error"}) # <<>>

\* C25: under concurrent POST /api/messages requests of one session, the
\* messages counted for the session in one window never exceed its limit.
C25_LimitNeverExceeded ==
    \A s \in Sessions : messageCount[s] <= MessageLimit

\* The calls that store something or reach the webhook.
EffectCalls ==
    {"createConversation", "createMessage:user", "createMessage:assistant",
     "createMessage:error", "axios.post", "createWebhookLog:success",
     "createWebhookLog:error"}

\* A request answered 400, 429 or 404 has not incremented the count, and one
\* answered 429 or 404 has stored no message and called no webhook.
RefusedLeavesNoTrace(r) ==
    /\ request[r].status \in {400, 429, 404} => Increments(r) = 0
    /\ request[r].status \in {429, 404} =>
          \A i \in DOMAIN calls[r] : calls[r][i].call \notin EffectCalls

HasEffect(r) ==
    \/ ResolvedCalls(r, EffectCalls) # <<>>
    \/ Increments(r) > 0

\* The stored conversation id exists and is one of the session's.
BelongsTo(session, id) ==
    \E i \in DOMAIN conversations : i = id /\ conversations[i] = session

\* Request r names a conversation.
NamesConversation(r) ==
    request[r].pc # "idle" /\ request[r].conversationId # NoConversation

====
